---- MODULE Spec2Model ----
(***************************************************************************)
(* Model of final2cli.py: the narration -> slide rendering -> timeline     *)
(* assembly pipeline (main, generate_all_audios, generate_images,          *)
(* assemble_video) and the complex-script line breaker of                  *)
(* render_text_image.                                                      *)
(*                                                                         *)
(* Durations are whole time units standing for moviepy's float seconds;    *)
(* list index i of the code is position i + 1 of a TLA+ sequence, and the  *)
(* files chunk_i.mp3 / img_i.png are keyed by the code's index i.          *)
(***************************************************************************)
EXTENDS Integers, Sequences, FiniteSets, TLC

\* ------------------------------------------------------------------ bounds
\* Most passages (non-empty input lines) of one run.
MaxSlides == 3

\* Narration lengths the Narrator may return for a passage.
Durs == {1, 3}
\* Values of --min-duration (0 and negatives disable the floor).
MinDurations == {-1, 0, 2}
\* Values of --width.
Widths == {250, 720}
\* What --background names: nothing, an image file, a path that does not
\* exist, a directory holding images, a directory holding no matching file.
BgKinds == {"none", "file", "missing", "dir", "emptydir"}
\* The image files of a background directory.
BgFiles == {"bg1", "bg2"}
\* What --logo names: nothing (or a missing path), a readable image, a file
\* ImageClip cannot load.
LogoKinds == {"none", "image", "corrupt"}
\* --enable-progress-bar off, on, on with a --progress-color that
\* ImageColor.getrgb rejects.
ProgressKinds == {"off", "on", "badcolor"}

\* Most words of a passage handed to the line breaker.
MaxWords == 3
\* The line breaker is followed until lines holds this many entries.
MaxLines == 5
\* Canvas widths, shaped word advances and space advances of the line breaker.
WrapWidths == {400, 720}
WordAdvances == {100, 250, 400, 700}
SpaceAdvances == {0, 20}

\* ------------------------------------------------------------------- state
VARIABLES
    pc,            \* main()'s position
    error,         \* the exception that ended the run ("" while none)
    args,          \* parse_args(): the options of the run
    chunks,        \* main: the passages, in document order
    tasks,         \* generate_all_audios: state of each generate_tts task
    audio_chunks,  \* the directory audio_chunks: index -> chunk_<i>.mp3
    images,        \* generate_images: paths (indices) returned, in order
    image_files,   \* the directory images: index -> img_<i>.png
    clips,         \* assemble_video: clips
    durations,     \* assemble_video: durations
    final,         \* assemble_video: final
    output,        \* what write_videofile handed to the encoder (<<>> or <<final>>)
    reordered,     \* history: some task finished before one appended earlier
    \* render_text_image, complex path (lines 157-171)
    wpc,           \* position in the line breaker
    max_width,     \* max_width
    space,         \* shaped advance of the space joining two words
    words,         \* words: shaped advance of each word still to place
    current,       \* current: the words of the line being built ("" is <<>>)
    lines,         \* lines
    passage,       \* text.split() as it was before the loop
    \* render_text_image: the vertical placement (lines 173-185, 232-245)
    layout,
    \* app.py: the runs started by the front end and the directory they run in
    runs,          \* per run: position, passages, the files its clips were read from
    scratch        \* the files under cwd: audio_chunks/chunk_<i>.mp3, images/img_<i>.png

pipeVars == <<pc, error, args, chunks, tasks, audio_chunks, images, image_files,
              clips, durations, final, output, reordered>>
wrapVars == <<wpc, max_width, space, words, current, lines, passage>>
sideVars == <<layout, runs, scratch>>
vars == <<pipeVars, wrapVars, sideVars>>

\* ----------------------------------------------------------------- helpers
RECURSIVE SumSeq(_)
SumSeq(s) == IF s = <<>> THEN 0 ELSE Head(s) + SumSeq(Tail(s))

Indices == 0 .. (Len(chunks) - 1)

\* The empty directory / the empty mapping.
NoFiles == [i \in {} |-> 0]

\* A clip that has not been built.
NoClip == [units |-> <<>>, duration |-> 0, narration |-> <<>>, music |-> <<>>,
           logo |-> <<>>, bars |-> <<>>, fadein |-> 0, fadeout |-> 0]

\* No passage is being wrapped.
WrapIdle ==
    /\ wpc = "idle"
    /\ max_width = 0
    /\ space = 0
    /\ words = <<>>
    /\ current = <<>>
    /\ lines = <<>>
    /\ passage = <<>>

\* No text block placed on its own.
NoLayout ==
    [stage |-> "idle", path |-> "simple", text_position |-> "center", height |-> 0,
     font_size |-> 0, line_h |-> 0, nlines |-> 0, total_h |-> 0, y |-> 0,
     box_top |-> 0, box_bottom |-> 0]

\* No run started by the front end.
NoRuns == [r \in {} |-> 0]

SideIdle ==
    /\ layout = NoLayout
    /\ runs = NoRuns
    /\ scratch = [audio |-> NoFiles, image |-> NoFiles]

\* --------------------------------------------------------------------- Init
\* main: chunks = the non-empty lines of the input; passage k is line k.
Passages(n) == [k \in 1..n |-> k]

Init ==
    /\ pc = "tts"
    /\ error = ""
    /\ args \in [width : Widths, min_duration : MinDurations, music : BOOLEAN,
                 logo : LogoKinds, progress : ProgressKinds, background : BgKinds,
                 height : {1280}, font : {"ok"}, style : {"default"},
                 font_color : {"ok"}, box_color : {"ok"}, shadow_color : {"ok"}]
    /\ chunks \in {Passages(n) : n \in 0..MaxSlides}
    /\ tasks = [i \in 0..(Len(chunks) - 1) |-> "pending"]
    /\ audio_chunks = NoFiles
    /\ images = <<>>
    /\ image_files = NoFiles
    /\ clips = <<>>
    /\ durations = <<>>
    /\ final = NoClip
    /\ output = <<>>
    /\ reordered = FALSE
    /\ WrapIdle
    /\ SideIdle

\* ------------------------------------------------------ generate_all_audios
\* generate_tts(text, out_path): edge_tts opens out_path when the task first
\* runs; asyncio starts the gathered tasks in the order they were appended.
TtsStart(i) ==
    /\ pc = "tts"
    /\ tasks[i] = "pending"
    /\ \A j \in Indices : j < i => tasks[j] # "pending"
    /\ tasks' = [tasks EXCEPT ![i] = "running"]
    /\ audio_chunks' = (i :> [text |-> chunks[i + 1], duration |-> 0, complete |-> FALSE])
                          @@ audio_chunks
    /\ UNCHANGED <<pc, error, args, chunks, images, image_files, clips, durations, final, output, reordered, wrapVars, sideVars>>

\* The Narrator's stream ends: chunk_<i>.mp3 is complete, d time units long.
TtsFinish(i, d) ==
    /\ pc = "tts"
    /\ tasks[i] = "running"
    /\ tasks' = [tasks EXCEPT ![i] = "done"]
    /\ audio_chunks' = [audio_chunks EXCEPT ![i] =
                          [text |-> chunks[i + 1], duration |-> d, complete |-> TRUE]]
    /\ reordered' = (reordered \/ \E j \in Indices : j < i /\ tasks[j] # "done")
    /\ UNCHANGED <<pc, error, args, chunks, images, image_files, clips, durations, final, output, wrapVars, sideVars>>

\* The Narrator fails: gather re-raises in main, which aborts the run.
TtsFail(i) ==
    /\ pc = "tts"
    /\ tasks[i] = "running"
    /\ pc' = "error"
    /\ error' = "SynthesisError"
    /\ UNCHANGED <<args, chunks, tasks, audio_chunks, images, image_files,
                   clips, durations, final, output, reordered, wrapVars, sideVars>>

\* GatherDone, returning at the first task that completes.
GatherFirstCompleted(t) == \E i \in DOMAIN t : t[i] = "done"

\* await asyncio.gather(*tasks): returns once every task has returned.
GatherDone(t) == \A i \in DOMAIN t : t[i] = "done"

GatherReturn ==
    /\ pc = "tts"
    /\ GatherDone(tasks)
    /\ pc' = "images"
    /\ UNCHANGED <<error, args, chunks, tasks, audio_chunks, images, image_files,
                   clips, durations, final, output, reordered, wrapVars, sideVars>>

\* ----------------------------------------------------- render_text_image
\* Fixed horizontal margin: max_width = size[0] - 100.
UsableMargin == 100

\* shape_line(txt, size_px)[1] for a line of words given by their shaped
\* advances: the advances of the words and of the spaces joining them.
ShapeWidth(line, sp) ==
    SumSeq(line) + (IF Len(line) > 1 THEN sp * (Len(line) - 1) ELSE 0)

\* Fits, measured against the canvas instead of the usable width.
FitsCanvas(w, maxw) == w <= maxw + UsableMargin

\* The test of line 164.
Fits(w, maxw) == w <= maxw

\* Passages as the layout sees them: the script class of the text
\* (contains_complex_script) and the shaped advance of each word.
SamplePassages ==
    { [complex |-> FALSE, widths |-> <<700>>],
      [complex |-> TRUE,  widths |-> <<100, 120>>],
      [complex |-> TRUE,  widths |-> <<700>>] }

\* The while loop of lines 161-169 never ends when a word alone does not fit:
\* with current = "" the trial is the word itself, the else branch appends
\* "" to lines and leaves words as it was.
LayoutDiverges(p, maxw) ==
    /\ p.complex
    /\ \E k \in 1..Len(p.widths) : ~Fits(ShapeWidth(<<p.widths[k]>>, 0), maxw)

\* Lines 125-128: what the slide is drawn on. An existing directory passes
\* os.path.exists and Image.open raises on it.
BackgroundOf(bg_path) ==
    CASE bg_path \in {"none", "missing"} -> "solid"
      [] bg_path = "emptydir"            -> "raise"
      [] bg_path = "dir"                 -> "raise"
      [] OTHER                           -> bg_path

\* main, lines 437-451: the caption and subtitle presets replace the font
\* and box colours of the options by literals.
Styled(a) ==
    IF a.style \in {"caption", "subtitle"}
    THEN [a EXCEPT !.font_color = "ok", !.box_color = "ok"]
    ELSE a

\* render_text_image after the background is open, for options a (presets
\* applied) and passage p: the exception it raises, "hang" when the wrapping
\* loop never ends, "" when it saves the slide. Image.new rejects a negative
\* size (lines 128, 130); getrgb rejects a malformed colour (133, 134, 147,
\* 257); freetype.Face rejects an unreadable font (138).
RenderOutcome(a, p) ==
    CASE a.height < 0 \/ a.width < 0                      -> "ValueError"
      [] a.box_color = "bad" \/ a.shadow_color = "bad"    -> "ValueError"
      [] p.complex /\ a.font = "bad"                      -> "FT_Exception"
      [] a.font_color = "bad"                              -> "ValueError"
      [] LayoutDiverges(p, a.width - UsableMargin)        -> "hang"
      [] OTHER                                             -> ""

\* Lines 223-227: the font the simple path draws with; any failure of
\* ImageFont.truetype is answered with the built-in default font.
SimpleFont(font_path) == IF font_path = "bad" THEN "default" ELSE "given"

\* ------------------------------------------------------- generate_images
\* Lines 283-301: the candidates for chosen_bg. A directory with no matching
\* file leaves bg_files = None, and chosen_bg = bg_img, the directory itself.
ChosenBgs(bg_img) ==
    LET bg_files == IF bg_img = "dir" THEN BgFiles ELSE {}
    IN  IF bg_files # {} THEN bg_files ELSE {bg_img}

\* One iteration of the loop of line 295 (render_text_image included).
GenImage ==
    /\ pc = "images"
    /\ Len(images) < Len(chunks)
    /\ LET i == Len(images) IN
       \E chosen_bg \in ChosenBgs(args.background), p \in SamplePassages :
          LET bg      == BackgroundOf(chosen_bg)
              outcome == RenderOutcome(Styled(args), p)
          IN
          IF bg = "raise"
          THEN /\ pc' = "error"
               /\ error' = "IsADirectoryError"
               /\ UNCHANGED <<images, image_files>>
          ELSE IF outcome = "hang"
          THEN /\ pc' = "hang"
               /\ UNCHANGED <<error, images, image_files>>
          ELSE IF outcome # ""
          THEN /\ pc' = "error"
               /\ error' = outcome
               /\ UNCHANGED <<images, image_files>>
          ELSE /\ image_files' = (i :> [text |-> chunks[i + 1], bg |-> bg,
                                        font |-> IF p.complex THEN "given"
                                                 ELSE SimpleFont(args.font)])
                                    @@ image_files
               /\ images' = Append(images, i)
               /\ UNCHANGED <<pc, error>>
    /\ UNCHANGED <<args, chunks, tasks, audio_chunks, clips, durations, final, output, reordered, wrapVars, sideVars>>

\* generate_images returns paths; main calls assemble_video.
GenImagesReturn ==
    /\ pc = "images"
    /\ Len(images) = Len(chunks)
    /\ pc' = "clips"
    /\ UNCHANGED <<error, args, chunks, tasks, audio_chunks, images, image_files,
                   clips, durations, final, output, reordered, wrapVars, sideVars>>

\* ------------------------------------------------------- assemble_video
Max(a, b) == IF a >= b THEN a ELSE b

\* UnitDuration without the test duration < min_duration: the floor also
\* shortens.
UnitDurationFloorOnly(audio_duration, min_duration) ==
    IF min_duration > 0 THEN min_duration ELSE audio_duration

\* Lines 342-344: the duration of one slide from its narration's length.
UnitDuration(audio_duration, min_duration) ==
    IF min_duration > 0 /\ audio_duration < min_duration
    THEN min_duration
    ELSE audio_duration

\* UnitAudio without the set_duration of line 345.
UnitAudioUnpadded(file, min_duration) ==
    [text |-> file.text, narration |-> file.duration, duration |-> file.duration]

\* Lines 341-345: the audio clip of one slide. AudioFileClip takes its
\* duration from the file; set_duration overwrites it when the floor applies.
UnitAudio(file, min_duration) ==
    [text |-> file.text, narration |-> file.duration,
     duration |-> IF min_duration > 0 /\ file.duration < min_duration
                  THEN min_duration
                  ELSE file.duration]

\* Line 347: ImageClip(img).set_duration(duration).set_audio(audio).
ImageClipOf(img, duration, audio) ==
    [image |-> [index |-> img, text |-> image_files[img].text],
     duration |-> duration, audio |-> audio, bar |-> <<>>]

\* ConcatenateVideoclips with consecutive clips overlapping by one fade
\* (padding = -1).
ConcatenateCrossfaded(cs) ==
    [units |-> cs,
     duration |-> SumSeq([k \in 1..Len(cs) |-> cs[k].duration]) - (Len(cs) - 1),
     narration |-> [k \in 1..Len(cs) |-> cs[k].audio],
     music |-> <<>>, logo |-> <<>>,
     bars |-> [k \in 1..Len(cs) |-> cs[k].bar],
     fadein |-> 0, fadeout |-> 0]

\* concatenate_videoclips(clips, method="compose"): the clips one after the
\* other, each with its own audio; nothing else is carried by the result.
ConcatenateVideoclips(cs) ==
    [units |-> cs,
     duration |-> SumSeq([k \in 1..Len(cs) |-> cs[k].duration]),
     narration |-> [k \in 1..Len(cs) |-> cs[k].audio],
     music |-> <<>>, logo |-> <<>>,
     bars |-> [k \in 1..Len(cs) |-> cs[k].bar],
     fadein |-> 0, fadeout |-> 0]

\* Bits of a double's fraction (Python's float).
DoubleFractionBits == 52

RECURSIVE Pow2(_)
Pow2(n) == IF n <= 0 THEN 1 ELSE 2 * Pow2(n - 1)

\* 2^e mod n.
RECURSIVE Pow2Mod(_, _)
Pow2Mod(e, n) == IF e = 0 THEN 1 % n ELSE (2 * Pow2Mod(e - 1, n)) % n

\* The least t with a * 2^t >= n: a / n = f * 2^-t with 1 <= f < 2.
RECURSIVE ScaleExp(_, _)
ScaleExp(a, n) == IF a >= n THEN 0 ELSE 1 + ScaleExp(2 * a, n)

\* The exponent of the doubles just below the integer k >= 1: the greatest E
\* with 2^E < k.
RECURSIVE BinadeBelow(_)
BinadeBelow(k) == IF k <= 1 THEN -1 ELSE 1 + BinadeBelow((k + 1) \div 2)

\* Line 402: progress_fraction = float(idx + 1) / total_slides, a = idx + 1 <
\* n. The quotient is rounded to the nearest double m * 2^-e, e = 52 + t;
\* a * 2^e - m * n, the part rounded away (times n), is the remainder of
\* a * 2^e by n taken in (-n/2, n/2) (a tie cannot occur).
FractionError(a, n) ==
    LET r == (a * Pow2Mod(DoubleFractionBits + ScaleExp(a, n), n)) % n
    IN  IF 2 * r < n THEN r ELSE r - n

\* Line 403: bar_width = int(size[0] * progress_fraction), in doubles. The
\* product is width * a / n less width * FractionError / (n * 2^e), rounded
\* to the nearest double (ties to the even fraction, which is k's) and cut
\* to an integer. Where width * a / n is no integer the errors are far too
\* small to reach the next integer; where it is an integer k and the
\* fraction was rounded down, the product lies below k and is rounded back
\* to k only when it is no further from k than half the gap to the double
\* before k, 2^(E - 52): otherwise int() gives k - 1.
BarWidth(width, idx, total_slides) ==
    LET a  == idx + 1
        n  == total_slides
        k  == (width * a) \div n
        rs == FractionError(a, n)
    IN  IF a = n THEN width
        ELSE IF (width * a) % n # 0 \/ rs <= 0 THEN k
        ELSE IF 2 * width * rs <= n * Pow2(ScaleExp(a, n) + BinadeBelow(k))
             THEN k
             ELSE k - 1

\* Lines 400-416: CompositeVideoClip([base_clip, bar_bg, bar_fg]) for each
\* base clip; a composite lasts as long as its longest layer.
ProgressClips(cs, durs, width) ==
    [k \in 1..Len(cs) |->
        [cs[k] EXCEPT !.duration = Max(cs[k].duration, durs[k]),
                      !.bar = <<BarWidth(width, k - 1, Len(durs))>>]]

\* Length of each fade of line 422.
FadeLen == 1

\* One iteration of the loop of line 340.
MakeClip ==
    /\ pc = "clips"
    /\ Len(clips) < Len(images)
    /\ LET i   == Len(clips)
           img == images[i + 1]
       IN  IF i \notin DOMAIN audio_chunks
           THEN /\ pc' = "error"
                /\ error' = "IOError"
                /\ UNCHANGED <<clips, durations>>
           ELSE LET audio    == UnitAudio(audio_chunks[i], args.min_duration)
                    duration == UnitDuration(audio_chunks[i].duration, args.min_duration)
                IN  /\ clips' = Append(clips, ImageClipOf(img, duration, audio))
                    /\ durations' = Append(durations, duration)
                    /\ UNCHANGED <<pc, error>>
    /\ UNCHANGED <<args, chunks, tasks, audio_chunks, images, image_files, final, output, reordered, wrapVars, sideVars>>

\* Line 352. With no clip at all concatenate_videoclips raises (max() of an
\* empty sequence).
Concatenate ==
    /\ pc = "clips"
    /\ Len(clips) = Len(images)
    /\ IF clips = <<>>
       THEN /\ pc' = "error"
            /\ error' = "ValueError"
            /\ UNCHANGED final
       ELSE /\ final' = ConcatenateVideoclips(clips)
            /\ pc' = "music"
            /\ UNCHANGED error
    /\ UNCHANGED <<args, chunks, tasks, audio_chunks, images, image_files,
                   clips, durations, output, reordered, wrapVars, sideVars>>

\* Lines 354-358: the music bed, looped to final.duration, mixed with
\* final.audio.
BackgroundMusic ==
    /\ pc = "music"
    /\ final' = IF args.music
                THEN [final EXCEPT !.music = <<final.duration>>]
                ELSE final
    /\ pc' = "logo"
    /\ UNCHANGED <<error, args, chunks, tasks, audio_chunks, images, image_files,
                   clips, durations, output, reordered, wrapVars, sideVars>>

\* Lines 360-391: CompositeVideoClip([final, logo_clip]); a logo that cannot
\* be loaded is reported and skipped.
LogoOverlay ==
    /\ pc = "logo"
    /\ final' = IF args.logo = "image"
                THEN [final EXCEPT !.logo = <<final.duration>>]
                ELSE final
    /\ pc' = "progress"
    /\ UNCHANGED <<error, args, chunks, tasks, audio_chunks, images, image_files,
                   clips, durations, output, reordered, wrapVars, sideVars>>

\* Lines 393-420: final is rebuilt from clips, the base clips of line 349; a
\* colour getrgb rejects is reported and final is left as it was.
ProgressBar ==
    /\ pc = "progress"
    /\ final' = IF args.progress = "on" /\ durations # <<>>
                THEN ConcatenateVideoclips(ProgressClips(clips, durations, args.width))
                ELSE final
    /\ pc' = "fade"
    /\ UNCHANGED <<error, args, chunks, tasks, audio_chunks, images, image_files,
                   clips, durations, output, reordered, wrapVars, sideVars>>

\* Line 422: final.fadein(1).fadeout(1); an effect on the frames, the
\* duration is kept.
Fade ==
    /\ pc = "fade"
    /\ final' = [final EXCEPT !.fadein = FadeLen, !.fadeout = FadeLen]
    /\ pc' = "write"
    /\ UNCHANGED <<error, args, chunks, tasks, audio_chunks, images, image_files,
                   clips, durations, output, reordered, wrapVars, sideVars>>

\* Line 423: the timeline is handed to the encoder.
WriteVideofile ==
    /\ pc = "write"
    /\ output' = <<final>>
    /\ pc' = "done"
    /\ UNCHANGED <<error, args, chunks, tasks, audio_chunks, images, image_files,
                   clips, durations, final, reordered, wrapVars, sideVars>>

Next ==
    \/ \E i \in Indices : TtsStart(i)
    \/ \E i \in Indices, d \in Durs : TtsFinish(i, d)
    \/ \E i \in Indices : TtsFail(i)
    \/ GatherReturn
    \/ GenImage
    \/ GenImagesReturn
    \/ MakeClip
    \/ Concatenate
    \/ BackgroundMusic
    \/ LogoOverlay
    \/ ProgressBar
    \/ Fade
    \/ WriteVideofile

Spec == Init /\ [][Next]_vars

\* ------------------------------------- render_text_image: the line breaker
\* parse_args(): the defaults, with the canvas width given.
DefaultArgs(width) ==
    [width |-> width, min_duration |-> 0, music |-> FALSE, logo |-> "none",
     progress |-> "off", background |-> "none", height |-> 1280, font |-> "ok",
     style |-> "default", font_color |-> "ok", box_color |-> "ok",
     shadow_color |-> "ok"]

RECURSIVE SeqsUpTo(_, _)
SeqsUpTo(S, n) ==
    IF n = 0 THEN {<<>>}
    ELSE LET shorter == SeqsUpTo(S, n - 1)
         IN  shorter \cup {Append(q, x) : q \in shorter, x \in S}

\* Lines 157-160: text.split() of a passage of the complex path.
InitWrap ==
    /\ pc = "idle"
    /\ error = ""
    /\ \E width \in WrapWidths :
          /\ args = DefaultArgs(width)
          /\ max_width = width - UsableMargin
    /\ chunks = <<>>
    /\ tasks = NoFiles
    /\ audio_chunks = NoFiles
    /\ images = <<>>
    /\ image_files = NoFiles
    /\ clips = <<>>
    /\ durations = <<>>
    /\ final = NoClip
    /\ output = <<>>
    /\ reordered = FALSE
    /\ wpc = "loop"
    /\ space \in SpaceAdvances
    /\ words \in SeqsUpTo(WordAdvances, MaxWords)
    /\ passage = words
    /\ current = <<>>
    /\ lines = <<>>
    /\ SideIdle

\* One iteration of the while loop of lines 161-169.
WrapIteration ==
    /\ wpc = "loop"
    /\ words # <<>>
    /\ LET trial == Append(current, Head(words))
           w     == ShapeWidth(trial, space)
       IN  IF Fits(w, max_width)
           THEN /\ current' = trial
                /\ words' = Tail(words)
                /\ UNCHANGED lines
           ELSE /\ Len(lines) < MaxLines
                /\ lines' = Append(lines, current)
                /\ current' = <<>>
                /\ UNCHANGED words
    /\ UNCHANGED <<wpc, max_width, space, passage, pipeVars, sideVars>>

\* Lines 170-171: the loop is left, the open line is closed.
WrapFinish ==
    /\ wpc = "loop"
    /\ words = <<>>
    /\ lines' = IF current # <<>> THEN Append(lines, current) ELSE lines
    /\ wpc' = "done"
    /\ UNCHANGED <<max_width, space, words, current, passage, pipeVars, sideVars>>

NextWrap ==
    \/ WrapIteration
    \/ WrapFinish

SpecWrap == InitWrap /\ [][NextWrap]_vars

\* --------------------------------------- assemble_video: the progress bar
\* Most slides of a run followed from the progress bar on.
MaxBarSlides == 10
\* Canvas widths of those runs.
BarCanvas == {90, 250, 720, 1080}

\* assemble_video at line 393, in a run of n slides with the progress bar
\* on and the other options at their defaults: every narration is done,
\* every slide rendered, clips and final built.
InitBar ==
    /\ pc = "progress"
    /\ error = ""
    /\ \E width \in BarCanvas :
          args = [DefaultArgs(width) EXCEPT !.progress = "on"]
    /\ chunks \in {Passages(n) : n \in 1..MaxBarSlides}
    /\ tasks = [i \in 0..(Len(chunks) - 1) |-> "done"]
    /\ audio_chunks = [i \in 0..(Len(chunks) - 1) |->
                          [text |-> chunks[i + 1], duration |-> 1, complete |-> TRUE]]
    /\ images = [k \in 1..Len(chunks) |-> k - 1]
    /\ image_files = [i \in 0..(Len(chunks) - 1) |-> [text |-> chunks[i + 1], bg |-> "solid",
                                                       font |-> "given"]]
    /\ clips = [k \in 1..Len(chunks) |->
                   ImageClipOf(images[k],
                               UnitDuration(audio_chunks[k - 1].duration, args.min_duration),
                               UnitAudio(audio_chunks[k - 1], args.min_duration))]
    /\ durations = [k \in 1..Len(chunks) |-> clips[k].duration]
    /\ final = ConcatenateVideoclips(clips)
    /\ output = <<>>
    /\ reordered = FALSE
    /\ WrapIdle
    /\ SideIdle

NextBar ==
    \/ ProgressBar
    \/ Fade
    \/ WriteVideofile

SpecBar == InitBar /\ [][NextBar]_vars

\* ------------------------- render_text_image: the vertical placement
\* Lengths of the placement are in tenths of a pixel: total_h of the complex
\* path is a float with one decimal (len(lines) * font_size * 1.3 + 40).
\* line_spacing = 1.3, in tenths.
LineSpacingTenths == 13
\* The padding added to total_h on the complex path (line 174), in pixels.
BlockPadding == 40
\* y of the top anchor (lines 177, 237), in pixels.
TopMargin == 60
\* The margin under a bottom-anchored block (lines 179, 239), in pixels.
BottomMargin == 60
\* The least y of a centred or bottom-anchored block (lines 179-181), in pixels.
MinMargin == 30
\* The box drawn around the block starts this far above y (lines 183, 243).
BoxInset == 20

\* Most lines of a block placed on its own.
MaxBlockLines == 20
\* Values of --height, of --font-size, and heights of "A" in the font.
Heights == {640, 1280}
FontSizes == {55, 60}
LineHeights == {44, 70}
Anchors == {"top", "center", "bottom"}

\* The pipeline is not running (the options are the defaults).
PipeIdle ==
    /\ pc = "idle"
    /\ error = ""
    /\ args = DefaultArgs(720)
    /\ chunks = <<>>
    /\ tasks = NoFiles
    /\ audio_chunks = NoFiles
    /\ images = <<>>
    /\ image_files = NoFiles
    /\ clips = <<>>
    /\ durations = <<>>
    /\ final = NoClip
    /\ output = <<>>
    /\ reordered = FALSE

\* Lines 174 and 232-233: total_h, in tenths of a pixel.
TotalHeight(path, nlines, font_size, line_h) ==
    IF path = "complex"
    THEN nlines * font_size * LineSpacingTenths + BlockPadding * 10
    ELSE nlines * (line_h + 10) * 10

\* AnchorY without the max(..., 30) of the bottom anchor.
AnchorYUnfloored(text_position, height, total_h) ==
    CASE text_position = "top"    -> TopMargin * 10
      [] text_position = "bottom" -> (height - (total_h \div 10) - BottomMargin) * 10
      [] OTHER -> Max(((height * 10 - total_h) \div 20) * 10, MinMargin * 10)

\* Lines 176-181 and 236-241: y, in tenths of a pixel. int(total_h) drops
\* the fraction; // rounds the centred y down to a whole pixel.
AnchorY(text_position, height, total_h) ==
    CASE text_position = "top"    -> TopMargin * 10
      [] text_position = "bottom" ->
            Max(height - (total_h \div 10) - BottomMargin, MinMargin) * 10
      [] OTHER -> Max(((height * 10 - total_h) \div 20) * 10, MinMargin * 10)

\* Lines 184 and 244: box_bottom; the simple path adds the padding here.
BoxBottom(path, y, total_h) ==
    IF path = "complex" THEN y + total_h ELSE y + total_h + BoxInset * 10

\* The lines of a passage are known, on either path; nothing is placed yet.
InitAnchor ==
    /\ PipeIdle
    /\ WrapIdle
    /\ runs = NoRuns
    /\ scratch = [audio |-> NoFiles, image |-> NoFiles]
    /\ \E path \in {"complex", "simple"}, text_position \in Anchors, height \in Heights,
          nlines \in 1..MaxBlockLines :
          \E font_size \in (IF path = "complex" THEN FontSizes ELSE {60}),
             line_h \in (IF path = "complex" THEN {0} ELSE LineHeights) :
             layout = [NoLayout EXCEPT !.stage = "measured", !.path = path,
                                       !.text_position = text_position,
                                       !.height = height, !.font_size = font_size,
                                       !.line_h = line_h, !.nlines = nlines]

\* Lines 173-185 (complex path) and 232-245 (simple path).
PlaceBlock ==
    /\ layout.stage = "measured"
    /\ LET total_h == TotalHeight(layout.path, layout.nlines, layout.font_size, layout.line_h)
           y       == AnchorY(layout.text_position, layout.height, total_h)
       IN  layout' = [layout EXCEPT !.stage = "placed", !.total_h = total_h, !.y = y,
                                    !.box_top = y - BoxInset * 10,
                                    !.box_bottom = BoxBottom(layout.path, y, total_h)]
    /\ UNCHANGED <<pipeVars, wrapVars, runs, scratch>>

NextAnchor == PlaceBlock

SpecAnchor == InitAnchor /\ [][NextAnchor]_vars

\* ----------------------------------------- main: the options of a run
\* Most passages of a run whose options are drawn freely.
ConfigSlides == 2
\* --font readable or not; a colour option well-formed or not; --height.
FontKinds == {"ok", "bad"}
ColorKinds == {"ok", "bad"}
ConfigHeights == {-1, 1280}
Styles == {"default", "caption"}

\* A run with any font, colours, height and style preset on the command line.
InitConfig ==
    /\ pc = "tts"
    /\ error = ""
    /\ args \in [width : {720}, min_duration : {0}, music : {FALSE},
                 logo : {"none"}, progress : {"off", "badcolor"},
                 background : {"none"}, height : ConfigHeights, font : FontKinds,
                 style : Styles, font_color : ColorKinds, box_color : ColorKinds,
                 shadow_color : ColorKinds]
    /\ chunks \in {Passages(n) : n \in 1..ConfigSlides}
    /\ tasks = [i \in 0..(Len(chunks) - 1) |-> "pending"]
    /\ audio_chunks = NoFiles
    /\ images = <<>>
    /\ image_files = NoFiles
    /\ clips = <<>>
    /\ durations = <<>>
    /\ final = NoClip
    /\ output = <<>>
    /\ reordered = FALSE
    /\ WrapIdle
    /\ SideIdle

SpecConfig == InitConfig /\ [][Next]_vars

\* ------------------------------------- app.py: runs started by the front end
\* Most runs in flight at once, and most passages of one of them.
MaxRuns == 2
RunSlides == 2
RunIds == 1..MaxRuns

\* Every run is started with cwd = BASE_DIR (app.py line 315) and main names
\* its directories "audio_chunks" and "images" relative to it (lines 432,
\* 457): scratch is the one pair of directories all the runs write to.
InitRuns ==
    /\ PipeIdle
    /\ WrapIdle
    /\ layout = NoLayout
    /\ runs = NoRuns
    /\ scratch = [audio |-> NoFiles, image |-> NoFiles]

\* app.py lines 310-316: a request starts final2cli.py on n passages.
StartRun(r, n) ==
    /\ r \notin DOMAIN runs
    /\ runs' = (r :> [pc |-> "tts", n |-> n, voiced |-> 0, images |-> 0, clips |-> <<>>])
                  @@ runs
    /\ UNCHANGED <<scratch, layout, pipeVars, wrapVars>>

\* generate_tts of run r saves audio_chunks/chunk_<i>.mp3, i its next index.
RunTts(r) ==
    /\ r \in DOMAIN runs
    /\ runs[r].pc = "tts"
    /\ runs[r].voiced < runs[r].n
    /\ scratch' = [scratch EXCEPT !.audio = (runs[r].voiced :> r) @@ scratch.audio]
    /\ runs' = [runs EXCEPT ![r].voiced = @ + 1]
    /\ UNCHANGED <<layout, pipeVars, wrapVars>>

\* asyncio.run(generate_all_audios(...)) returns in run r.
RunGather(r) ==
    /\ r \in DOMAIN runs
    /\ runs[r].pc = "tts"
    /\ runs[r].voiced = runs[r].n
    /\ runs' = [runs EXCEPT ![r].pc = "images"]
    /\ UNCHANGED <<scratch, layout, pipeVars, wrapVars>>

\* generate_images of run r saves images/img_<i>.png, i its next index.
RunImage(r) ==
    /\ r \in DOMAIN runs
    /\ runs[r].pc = "images"
    /\ runs[r].images < runs[r].n
    /\ scratch' = [scratch EXCEPT !.image = (runs[r].images :> r) @@ scratch.image]
    /\ runs' = [runs EXCEPT ![r].images = @ + 1]
    /\ UNCHANGED <<layout, pipeVars, wrapVars>>

\* generate_images returns in run r.
RunImagesReturn(r) ==
    /\ r \in DOMAIN runs
    /\ runs[r].pc = "images"
    /\ runs[r].images = runs[r].n
    /\ runs' = [runs EXCEPT ![r].pc = "clips"]
    /\ UNCHANGED <<scratch, layout, pipeVars, wrapVars>>

\* assemble_video of run r, one iteration of the loop of line 340: the clip
\* is made of whatever chunk_<i>.mp3 and img_<i>.png hold by now.
RunClip(r) ==
    /\ r \in DOMAIN runs
    /\ runs[r].pc = "clips"
    /\ Len(runs[r].clips) < runs[r].n
    /\ LET i == Len(runs[r].clips) IN
       runs' = [runs EXCEPT ![r].clips =
                   Append(@, [audio |-> scratch.audio[i], image |-> scratch.image[i]])]
    /\ UNCHANGED <<scratch, layout, pipeVars, wrapVars>>

\* Run r encodes its video and exits.
RunWrite(r) ==
    /\ r \in DOMAIN runs
    /\ runs[r].pc = "clips"
    /\ Len(runs[r].clips) = runs[r].n
    /\ runs' = [runs EXCEPT ![r].pc = "done"]
    /\ UNCHANGED <<scratch, layout, pipeVars, wrapVars>>

NextRuns ==
    \/ \E r \in RunIds, n \in 1..RunSlides : StartRun(r, n)
    \/ \E r \in RunIds : RunTts(r)
    \/ \E r \in RunIds : RunGather(r)
    \/ \E r \in RunIds : RunImage(r)
    \/ \E r \in RunIds : RunImagesReturn(r)
    \/ \E r \in RunIds : RunClip(r)
    \/ \E r \in RunIds : RunWrite(r)

SpecRuns == InitRuns /\ [][NextRuns]_vars

\* ============================================================== properties
\* The narration length of slide k (position k of clips), as synthesized.
Narration(k) == audio_chunks[k - 1].duration

\* C1: every slide unit lasts max(narration, min_duration) when
\* min_duration > 0 and exactly its narration otherwise, so never less than
\* its narration.
C1_UnitDuration ==
    \A k \in 1..Len(clips) :
        /\ args.min_duration > 0 => clips[k].duration = Max(Narration(k), args.min_duration)
        /\ args.min_duration <= 0 => clips[k].duration = Narration(k)
        /\ clips[k].duration >= Narration(k)
        /\ durations[k] = clips[k].duration

\* A finished run with the floor on, one slide raised to it and one longer
\* than it.
C1_Witness ==
    /\ pc = "done"
    /\ args.min_duration > 0
    /\ \E k \in 1..Len(clips) : clips[k].duration > Narration(k)
    /\ \E k \in 1..Len(clips) : Narration(k) > args.min_duration

\* C2: the audio attached to a slide unit lasts exactly as long as the
\* unit's video clip, raised to the floor or not, in clips and in the
\* timeline handed to the encoder.
C2_AudioMatchesVideo ==
    /\ \A k \in 1..Len(clips) : clips[k].audio.duration = clips[k].duration
    /\ output # <<>> =>
          \A k \in 1..Len(output[1].units) :
              output[1].units[k].audio.duration = output[1].units[k].duration

\* An encoded timeline holding a unit whose audio was lengthened past its
\* narration.
C2_Witness ==
    /\ output # <<>>
    /\ \E k \in 1..Len(output[1].units) :
          output[1].units[k].audio.duration > output[1].units[k].audio.narration

\* C3: the timeline handed to the encoder holds one unit per passage, unit i
\* built from image i and audio chunk i, and lasts the sum of the per-unit
\* durations, fades included, whatever the music, logo and progress options.
C3_OrderAndTotal ==
    output # <<>> =>
        LET f == output[1] IN
        /\ Len(f.units) = Len(chunks)
        /\ \A k \in 1..Len(f.units) :
              /\ f.units[k].image.index = k - 1
              /\ f.units[k].image.text = chunks[k]
              /\ f.units[k].audio.text = chunks[k]
              /\ f.units[k].duration = durations[k]
        /\ f.duration = SumSeq(durations)
        /\ f.fadein = FadeLen /\ f.fadeout = FadeLen

\* An encoded timeline of several units of different lengths, with music,
\* logo and progress bar all asked for.
C3_Witness ==
    /\ output # <<>>
    /\ Len(output[1].units) >= 2
    /\ \E j, k \in 1..Len(durations) : durations[j] # durations[k]
    /\ args.music /\ args.logo = "image" /\ args.progress = "on"

\* C4: every line the complex-path line breaker has produced is at most
\* max_width wide, unless it is one single word that is itself wider.
C4_LinesFit ==
    \A k \in 1..Len(lines) :
        \/ ShapeWidth(lines[k], space) <= max_width
        \/ Len(lines[k]) = 1 /\ lines[k][1] > max_width

\* The breaker has finished a passage it had to break, with a line of
\* several words.
C4_Witness ==
    /\ wpc = "done"
    /\ Len(lines) >= 2
    /\ \E k \in 1..Len(lines) : Len(lines[k]) >= 2

\* C5: a word wider than max_width met with no line open is taken from words
\* and stands alone on its own line (as the open line or as a closed one).
C5_WideWordAlone ==
    [][ ( /\ wpc = "loop"
          /\ words # <<>>
          /\ current = <<>>
          /\ Head(words) > max_width )
        => ( /\ words' = Tail(words)
             /\ \/ current' = <<Head(words)>>
                \/ lines' = Append(lines, <<Head(words)>>) ) ]_vars

\* C6: with a logo and the progress bar both enabled, the timeline handed to
\* the encoder carries the logo overlay and a progress bar on every unit.
C6_BothOverlays ==
    (output # <<>> /\ args.logo = "image" /\ args.progress = "on") =>
        /\ output[1].logo # <<>>
        /\ \A k \in 1..Len(output[1].bars) : output[1].bars[k] # <<>>

\* C7: with a music file given, the audio handed to the encoder is the
\* narration mixed with the music bed looped to the timeline's duration.
C7_MusicMixed ==
    (output # <<>> /\ args.music) =>
        /\ output[1].music = <<output[1].duration>>
        /\ Len(output[1].narration) = Len(chunks)

\* v is an integer nearest to num / den (either neighbour on a tie).
RoundsTo(v, num, den) ==
    /\ 2 * (v * den - num) <= den
    /\ 2 * (num - v * den) <= den

\* C8: the progress bar of slide i of n is round(width * (i + 1) / n) wide,
\* and the last slide's is exactly width wide.
C8_BarWidth ==
    output # <<>> =>
        LET bars == output[1].bars
            n    == Len(bars)
        IN  \A k \in 1..n :
                bars[k] # <<>> =>
                    /\ RoundsTo(bars[k][1], args.width * k, n)
                    /\ k = n => bars[k][1] = args.width

\* C9: a background directory with no matching image leaves every slide on
\* the solid fill and raises nothing.
C9_EmptyDirFallsBack ==
    args.background = "emptydir" =>
        /\ error # "IsADirectoryError"
        /\ \A i \in DOMAIN image_files : image_files[i].bg = "solid"

\* C10: assemble_video runs only when every narration task has completed,
\* and the audio of slide i is the one synthesized from passage i.
C10_JoinThenPair ==
    /\ (pc \in {"clips", "music", "logo", "progress", "fade", "write", "done"}
        \/ clips # <<>>) =>
          \A i \in Indices :
              /\ tasks[i] = "done"
              /\ i \in DOMAIN audio_chunks
              /\ audio_chunks[i].complete
    /\ \A k \in 1..Len(clips) :
          /\ clips[k].audio.text = chunks[k]
          /\ clips[k].audio.narration = audio_chunks[k - 1].duration

\* The tasks completed out of order and every slide has its clip.
C10_Witness ==
    /\ reordered
    /\ Len(clips) >= 2
    /\ Len(clips) = Len(chunks)
\* C11: each fade applied to the final timeline lasts at most half of the
\* timeline's duration, also when the timeline is shorter than two seconds.
C11_FadesClamped ==
    output # <<>> =>
        /\ 2 * output[1].fadein <= output[1].duration
        /\ 2 * output[1].fadeout <= output[1].duration

\* C12 as stated: on both paths a top-anchored block starts at the top
\* margin, a bottom-anchored block ends at canvas height less the bottom
\* margin, and no block starts above the canvas or ends below it.
C12_AnchorInvariant ==
    layout.stage = "placed" =>
        /\ layout.text_position = "top" => layout.y = TopMargin * 10
        /\ layout.text_position = "bottom" =>
              layout.y + layout.total_h = (layout.height - BottomMargin) * 10
        /\ layout.y >= 0
        /\ layout.y + layout.total_h <= layout.height * 10

\* C12, amended: a top-anchored block starts at the top margin; a
\* bottom-anchored block whose height, cut to whole pixels, is at most canvas
\* height - 90 ends at canvas height - 60, plus the fraction of a pixel int()
\* cut from its height; a taller one starts at the least margin, 30; no block
\* starts above 30.
C12_AnchorFloored ==
    layout.stage = "placed" =>
        LET h      == layout.height
            bottom == layout.y + layout.total_h
        IN  /\ layout.text_position = "top" => layout.y = TopMargin * 10
            /\ layout.text_position = "bottom" =>
                  IF layout.total_h \div 10 <= h - BottomMargin - MinMargin
                  THEN /\ bottom >= (h - BottomMargin) * 10
                       /\ bottom < (h - BottomMargin) * 10 + 10
                  ELSE layout.y = MinMargin * 10
            /\ layout.y >= MinMargin * 10
            /\ layout.box_top = layout.y - BoxInset * 10

\* A bottom-anchored block too tall for the canvas: held at the least margin,
\* it ends below the canvas.
C12_Witness ==
    /\ layout.stage = "placed"
    /\ layout.text_position = "bottom"
    /\ layout.y = MinMargin * 10
    /\ layout.y + layout.total_h > layout.height * 10

\* Some narration task has begun.
NarrationStarted == \E i \in DOMAIN tasks : tasks[i] # "pending"

\* C13: in a run whose font is unreadable no slide image is written, on
\* either shaping path, and no clip or video is built from slides drawn with
\* a substitute font.
C13_BadFontAborts ==
    args.font = "bad" =>
        /\ image_files = NoFiles
        /\ clips = <<>>
        /\ output = <<>>

\* C14: in a run with a malformed font, box, shadow or progress-bar colour,
\* or a non-positive size, no narration starts, no slide is rendered, no clip
\* is built and no video is produced.
C14_BadConfigRunsNothing ==
    (\/ "bad" \in {args.font_color, args.box_color, args.shadow_color}
     \/ args.progress = "badcolor"
     \/ args.height <= 0
     \/ args.width <= 0) =>
        /\ ~NarrationStarted
        /\ image_files = NoFiles
        /\ clips = <<>>
        /\ output = <<>>

\* C15: runs in flight together share no scratch space: every clip a run
\* builds is read from an audio chunk and a slide image the run itself wrote.
C15_RunsIsolated ==
    \A r \in DOMAIN runs : \A k \in 1..Len(runs[r].clips) :
        /\ runs[r].clips[k].audio = r
        /\ runs[r].clips[k].image = r

\* The words of the lines ls, in order.
RECURSIVE Flatten(_)
Flatten(ls) == IF ls = <<>> THEN <<>> ELSE Head(ls) \o Flatten(Tail(ls))

\* C16: the wrapping loop ends for every passage and usable width: it never
\* produces an empty line, so it makes no more lines than the passage has
\* words, and when it is left the lines hold the words of the passage, each
\* once and in their order.
C16_WrapEndsAndPartitions ==
    /\ \A k \in 1..Len(lines) : lines[k] # <<>>
    /\ Len(lines) <= Len(passage)
    /\ wpc = "done" => Flatten(lines) = passage
====
